---- MODULE Spec2Model ----
(***************************************************************************)
(* A model of src/src/vecbool.rs: VecBool, a vector of booleans packed     *)
(* eight to a u8 chunk.  A container is the record [len, chunks, cap]:     *)
(* the field len and the Vec<u8> chunks, the latter with its allocated     *)
(* capacity cap (what Vec::with_capacity reserves and VecBool never        *)
(* reads).  Every method is an operator from a container (and arguments)   *)
(* to the container it leaves and the value it returns; a panic is a       *)
(* return value of its own kind, and leaves the container as it was when   *)
(* the panic happened.                                                     *)
(***************************************************************************)
EXTENDS Integers, Sequences, FiniteSets, TLC

\* type Chunk = u8: the number of values of a chunk
ChunkValues == 256

CHUNK_SIZE == 8

\* Bounds of the model
MaxZeros == 9
MaxCapHint == 8
MaxIdx == 9
MaxOps == 2

VARIABLES self, twin, ret, twinRet, op, prev, steps

vars == <<self, twin, ret, twinRet, op, prev, steps>>

----------------------------------------------------------------------------
(* u8 arithmetic *)

Max(a, b) == IF a >= b THEN a ELSE b

Min(a, b) == IF a <= b THEN a ELSE b

RECURSIVE Pow2(_)
Pow2(n) == IF n = 0 THEN 1 ELSE 2 * Pow2(n - 1)

Chunks == 0..(ChunkValues - 1)

\* 1 << shifts on a Chunk, tabulated
Shl1Table == [k \in 0..(CHUNK_SIZE - 1) |-> Pow2(k) % ChunkValues]

Shl1(shifts) == Shl1Table[shifts]

RECURSIVE BitAndN(_, _, _)
BitAndN(a, b, n) ==
    IF n = 0 THEN 0
    ELSE (a % 2) * (b % 2) + 2 * BitAndN(a \div 2, b \div 2, n - 1)

\* a & b on Chunks, tabulated
BitAndTable == [a \in Chunks |-> [b \in Chunks |-> BitAndN(a, b, CHUNK_SIZE)]]

BitAnd(a, b) == BitAndTable[a][b]

RECURSIVE BitOrN(_, _, _)
BitOrN(a, b, n) ==
    IF n = 0 THEN 0
    ELSE Max(a % 2, b % 2) + 2 * BitOrN(a \div 2, b \div 2, n - 1)

\* a | b on Chunks, tabulated
BitOrTable == [a \in Chunks |-> [b \in Chunks |-> BitOrN(a, b, CHUNK_SIZE)]]

BitOr(a, b) == BitOrTable[a][b]

\* !a on a Chunk
BitNot(a) == (ChunkValues - 1) - a

----------------------------------------------------------------------------
(* Returned values: a kind and, for the kinds that carry booleans, those *)

None == [kind |-> "None", val |-> <<>>]

Some(b) == [kind |-> "Some", val |-> <<b>>]

Bool(b) == [kind |-> "bool", val |-> <<b>>]

Unit == [kind |-> "unit", val |-> <<>>]

Panic == [kind |-> "panic", val |-> <<>>]

Items(s) == [kind |-> "iter", val |-> s]

\* usize results (len, capacity) are carried in unary to keep val a sequence
\* of booleans
Usize(n) == [kind |-> "usize", val |-> [i \in 1..n |-> TRUE]]

Result(s, r) == [self |-> s, ret |-> r]

----------------------------------------------------------------------------
(* Vec<Chunk> *)

\* Vec::push: the allocation doubles (to at least 8 bytes) when it is full
VecPush(s, x) ==
    [s EXCEPT !.chunks = Append(@, x),
              !.cap = IF Len(s.chunks) < @ THEN @
                      ELSE Max(Max(2 * @, Len(s.chunks) + 1), CHUNK_SIZE)]

\* Vec::pop: removes the last element, if there is one
VecPop(s) ==
    IF s.chunks = <<>> THEN s
    ELSE [s EXCEPT !.chunks = SubSeq(@, 1, Len(@) - 1)]

----------------------------------------------------------------------------
(* VecBool *)

new == [len |-> 0, chunks |-> <<>>, cap |-> 0]

\* Mutant: the hint allocates zeroed chunks instead of reserving room
with_capacity_Zeroed(capacity) ==
    [len |-> 0,
     chunks |-> [i \in 1..((capacity \div CHUNK_SIZE) + 1) |-> 0],
     cap |-> (capacity \div CHUNK_SIZE) + 1]

with_capacity(capacity) ==
    [len |-> 0, chunks |-> <<>>, cap |-> (capacity \div CHUNK_SIZE) + 1]

\* Mutant: the chunk count is rounded up instead of len / CHUNK_SIZE + 1
with_zeros_Ceil(n) ==
    [len |-> n,
     chunks |-> [i \in 1..((n + CHUNK_SIZE - 1) \div CHUNK_SIZE) |-> 0],
     cap |-> (n + CHUNK_SIZE - 1) \div CHUNK_SIZE]

with_zeros(n) ==
    [len |-> n,
     chunks |-> [i \in 1..((n \div CHUNK_SIZE) + 1) |-> 0],
     cap |-> (n \div CHUNK_SIZE) + 1]

len(s) == s.len

capacity(s) == Len(s.chunks) * CHUNK_SIZE

\* Mutant: the chunk index and the shift are taken the wrong way round
get_index_Swapped(index) ==
    [chunk_index |-> index % CHUNK_SIZE,
     mask |-> Shl1((index \div CHUNK_SIZE) % CHUNK_SIZE)]

get_index(index) ==
    [chunk_index |-> index \div CHUNK_SIZE,
     mask |-> Shl1(index % CHUNK_SIZE)]

get_unchecked(s, index) ==
    LET gi == get_index(index) IN
    IF gi.chunk_index >= Len(s.chunks) THEN Result(s, Panic)
    ELSE Result(s, Bool(BitAnd(s.chunks[gi.chunk_index + 1], gi.mask) # 0))

\* Mutant: the bound check is index > len
get_OffByOne(s, index) ==
    IF index > s.len THEN Result(s, None)
    ELSE LET r == get_unchecked(s, index) IN
         IF r.ret = Panic THEN r ELSE Result(s, Some(r.ret.val[1]))

get(s, index) ==
    IF index >= s.len THEN Result(s, None)
    ELSE LET r == get_unchecked(s, index) IN
         IF r.ret = Panic THEN r ELSE Result(s, Some(r.ret.val[1]))

\* Mutant: clearing a bit uses the mask itself, not its complement
set_unchecked_ClearsOthers(s, index, value) ==
    LET gi == get_index(index) IN
    IF gi.chunk_index >= Len(s.chunks) THEN Result(s, Panic)
    ELSE IF value
         THEN Result([s EXCEPT !.chunks[gi.chunk_index + 1] =
                                    BitOr(@, gi.mask)], Unit)
         ELSE Result([s EXCEPT !.chunks[gi.chunk_index + 1] =
                                    BitAnd(@, gi.mask)], Unit)

set_unchecked(s, index, value) ==
    LET gi == get_index(index) IN
    IF gi.chunk_index >= Len(s.chunks) THEN Result(s, Panic)
    ELSE IF value
         THEN Result([s EXCEPT !.chunks[gi.chunk_index + 1] =
                                    BitOr(@, gi.mask)], Unit)
         ELSE Result([s EXCEPT !.chunks[gi.chunk_index + 1] =
                                    BitAnd(@, BitNot(gi.mask))], Unit)

\* Mutant: the bound check is index > len
set_OffByOne(s, index, value) ==
    IF index > s.len THEN Result(s, Bool(FALSE))
    ELSE LET r == set_unchecked(s, index, value) IN
         IF r.ret = Panic THEN r ELSE Result(r.self, Bool(TRUE))

set(s, index, value) ==
    IF index >= s.len THEN Result(s, Bool(FALSE))
    ELSE LET r == set_unchecked(s, index, value) IN
         IF r.ret = Panic THEN r ELSE Result(r.self, Bool(TRUE))

\* Mutant: a chunk is added one push early
push_GrowsEarly(s, value) ==
    LET s1 == IF s.len + 1 >= capacity(s) THEN VecPush(s, 0) ELSE s
        s2 == [s1 EXCEPT !.len = @ + 1]
    IN  set_unchecked(s2, s2.len - 1, value)

\* Mutant: a chunk is added only once len exceeds the capacity
push_NoGrowAtCapacity(s, value) ==
    LET s1 == IF s.len > capacity(s) THEN VecPush(s, 0) ELSE s
        s2 == [s1 EXCEPT !.len = @ + 1]
    IN  set_unchecked(s2, s2.len - 1, value)

\* Mutant: the new slot is written only when the value is true
push_OnlySetsTrue(s, value) ==
    LET s1 == IF s.len >= capacity(s) THEN VecPush(s, 0) ELSE s
        s2 == [s1 EXCEPT !.len = @ + 1]
    IN  IF value THEN set_unchecked(s2, s2.len - 1, value) ELSE Result(s2, Unit)

push(s, value) ==
    LET s1 == IF s.len >= capacity(s) THEN VecPush(s, 0) ELSE s
        s2 == [s1 EXCEPT !.len = @ + 1]
    IN  set_unchecked(s2, s2.len - 1, value)

\* Mutant: no chunk is ever dropped
pop_KeepsChunks(s) ==
    IF s.len = 0 THEN Result(s, None)
    ELSE LET s1 == [s EXCEPT !.len = @ - 1]
             data == get_unchecked(s1, s1.len)
         IN  IF data.ret = Panic THEN data
             ELSE Result(s1, Some(data.ret.val[1]))

\* Mutant: the chunk is dropped when the length before the pop is a multiple
\* of CHUNK_SIZE
pop_ShrinksAtOldLen(s) ==
    IF s.len = 0 THEN Result(s, None)
    ELSE LET s1 == [s EXCEPT !.len = @ - 1]
             data == get_unchecked(s1, s1.len)
         IN  IF data.ret = Panic THEN data
             ELSE Result(IF s.len % CHUNK_SIZE = 0 THEN VecPop(s1) ELSE s1,
                         Some(data.ret.val[1]))

\* Mutant: the bit is read at len before len is decremented
pop_ReadsBeforeDecrement(s) ==
    IF s.len = 0 THEN Result(s, None)
    ELSE LET s1 == [s EXCEPT !.len = @ - 1]
             data == get_unchecked(s, s.len)
         IN  IF data.ret = Panic THEN Result(s1, Panic)
             ELSE Result(IF s1.len % CHUNK_SIZE = 0 THEN VecPop(s1) ELSE s1,
                         Some(data.ret.val[1]))

pop(s) ==
    IF s.len = 0 THEN Result(s, None)
    ELSE LET s1 == [s EXCEPT !.len = @ - 1]
             data == get_unchecked(s1, s1.len)
         IN  IF data.ret = Panic THEN data
             ELSE Result(IF s1.len % CHUNK_SIZE = 0 THEN VecPop(s1) ELSE s1,
                         Some(data.ret.val[1]))

\* chunk & (1 << shift) != 0
Bit(chunk, shift) == BitAnd(chunk, Shl1(shift)) # 0

\* self.chunks.iter().take(n)
Take(chunks, n) == SubSeq(chunks, 1, Min(n, Len(chunks)))

\* .flat_map(|chunk| (0..CHUNK_SIZE).map(...))
FlatMapBits(cs) ==
    [j \in 1..(Len(cs) * CHUNK_SIZE) |->
        Bit(cs[((j - 1) \div CHUNK_SIZE) + 1], (j - 1) % CHUNK_SIZE)]

\* self.chunks.last().copied().unwrap_or_default()
LastOrDefault(chunks) == IF chunks = <<>> THEN 0 ELSE chunks[Len(chunks)]

iter(s) ==
    LET full == FlatMapBits(Take(s.chunks, s.len \div CHUNK_SIZE))
        chunk == LastOrDefault(s.chunks)
        tail == [j \in 1..(s.len % CHUNK_SIZE) |-> Bit(chunk, j - 1)]
    IN  Result(s, Items(full \o tail))

----------------------------------------------------------------------------
(* The program: a container is built by one constructor and then used by    *)
(* any calls.  twin is the container new() builds when self comes from     *)
(* with_capacity (a copy of self otherwise); it receives the same calls.   *)
(* op is the last call, ret and twinRet what it returned, prev the         *)
(* container self was before it, steps the number of &mut self calls made. *)

Indices == 0..MaxIdx

Call(name, idx, val) == [name |-> name, idx |-> idx, val |-> val]

InitWith(name, arg, s, t) ==
    /\ self = s
    /\ twin = t
    /\ ret = Unit
    /\ twinRet = Unit
    /\ op = Call(name, arg, FALSE)
    /\ prev = s
    /\ steps = 0

Init ==
    \/ InitWith("new", 0, new, new)
    \/ \E c \in 0..MaxCapHint : InitWith("with_capacity", c, with_capacity(c), new)
    \/ \E n \in 0..MaxZeros : InitWith("with_zeros", n, with_zeros(n), with_zeros(n))

Alive == ret.kind # "panic" /\ twinRet.kind # "panic"

\* A call that may change the container
Mutate(call, r, t) ==
    /\ Alive
    /\ steps < MaxOps
    /\ self' = r.self
    /\ ret' = r.ret
    /\ twin' = t.self
    /\ twinRet' = t.ret
    /\ op' = call
    /\ prev' = self
    /\ steps' = steps + 1

\* A call on &self
Read(call, r, t) ==
    /\ Alive
    /\ self' = r.self
    /\ ret' = r.ret
    /\ twin' = t.self
    /\ twinRet' = t.ret
    /\ op' = call
    /\ prev' = self
    /\ UNCHANGED steps

Push ==
    \E v \in BOOLEAN : Mutate(Call("push", 0, v), push(self, v), push(twin, v))

Pop == Mutate(Call("pop", 0, FALSE), pop(self), pop(twin))

Set ==
    \E i \in Indices, v \in BOOLEAN :
        Mutate(Call("set", i, v), set(self, i, v), set(twin, i, v))

SetUnchecked ==
    \E i \in Indices, v \in BOOLEAN :
        Mutate(Call("set_unchecked", i, v),
               set_unchecked(self, i, v), set_unchecked(twin, i, v))

Get ==
    \E i \in Indices : Read(Call("get", i, FALSE), get(self, i), get(twin, i))

GetUnchecked ==
    \E i \in Indices :
        Read(Call("get_unchecked", i, FALSE),
             get_unchecked(self, i), get_unchecked(twin, i))

Iter == Read(Call("iter", 0, FALSE), iter(self), iter(twin))

LenCall ==
    Read(Call("len", 0, FALSE),
         Result(self, Usize(len(self))), Result(twin, Usize(len(twin))))

CapacityCall ==
    Read(Call("capacity", 0, FALSE),
         Result(self, Usize(capacity(self))), Result(twin, Usize(capacity(twin))))

Next ==
    \/ Push
    \/ Pop
    \/ Set
    \/ SetUnchecked
    \/ Get
    \/ GetUnchecked
    \/ Iter
    \/ LenCall
    \/ CapacityCall

Spec == Init /\ [][Next]_vars

----------------------------------------------------------------------------
(* The program of the tests new and with_capacity: a container built by    *)
(* new() or with_capacity(c) and changed by push, pop and set alone, the   *)
(* pushes writing i % 3 == 0 at index i as simple_test does.  The length   *)
(* is bounded instead of the number of calls; steps is not counted.        *)

MaxPushes == 32
MaxSetIdx == 1

InitNew ==
    \/ InitWith("new", 0, new, new)
    \/ \E c \in 0..MaxCapHint : InitWith("with_capacity", c, with_capacity(c), new)

\* A call outside the budget of calls
Free(call, r, t) ==
    /\ Alive
    /\ self' = r.self
    /\ ret' = r.ret
    /\ twin' = t.self
    /\ twinRet' = t.ret
    /\ op' = call
    /\ prev' = self
    /\ UNCHANGED steps

PushNew ==
    /\ self.len < MaxPushes
    /\ LET v == (self.len % 3 = 0) IN
       Free(Call("push", 0, v), push(self, v), push(twin, v))

PopNew == Free(Call("pop", 0, FALSE), pop(self), pop(twin))

SetNew ==
    \E i \in 0..MaxSetIdx, v \in BOOLEAN :
        Free(Call("set", i, v), set(self, i, v), set(twin, i, v))

NextNew ==
    \/ PushNew
    \/ PopNew
    \/ SetNew

SpecNew == InitNew /\ [][NextNew]_vars

----------------------------------------------------------------------------
(* Properties *)

\* The indices a property tries: every slot of the storage and a chunk's
\* worth beyond it
Probe(s) == 0..(capacity(s) + CHUNK_SIZE)

ChunkCount(s) == Len(s.chunks)

\* The states in which len() has just been called.  len() can be called on
\* every container a run reaches and leaves it as it was, so what a property
\* says of the calls that could be made next is said there, once for each
\* container.
Probed == op.name = "len" /\ ret = Usize(len(self)) /\ prev = self

\* What iter() yields is len() elements, the i-th being get(i)
IterMatchesGet(s, items) ==
    /\ Len(items) = s.len
    /\ \A i \in 0..(s.len - 1) : get(s, i).ret = Some(items[i + 1])

\* C1: for every container built by a constructor and changed by push, pop,
\* set and set_unchecked, iter() yields exactly len() elements and the i-th
\* equals get(i).  Stated of every iter() call made.
C1_IterFidelity == (op.name = "iter") => IterMatchesGet(self, ret.val)

\* C2: Invariant C: the chunk count never exceeds len / 8 + 1.
C2_InvariantC == ChunkCount(self) <= (self.len \div CHUNK_SIZE) + 1

\* C3: in every reachable state len() <= capacity(), and capacity() is the
\* chunk count times 8 (of the value a capacity() call returned, too).
C3_LengthInvariant ==
    /\ len(self) <= capacity(self)
    /\ capacity(self) = ChunkCount(self) * CHUNK_SIZE
    /\ (op.name = "capacity") => ret = Usize(ChunkCount(self) * CHUNK_SIZE)

C3_Witness ==
    /\ op.name = "push"
    /\ ret = Unit
    /\ self.len = capacity(self)
    /\ prev.len = CHUNK_SIZE - 1

\* The claim as written: a pop at a non-zero multiple of 8 drops one chunk,
\* a pop at any other length drops none
PopShrinksAtMultiple(before, after) ==
    ChunkCount(after) =
        ChunkCount(before)
        - (IF before.len # 0 /\ before.len % CHUNK_SIZE = 0 THEN 1 ELSE 0)

\* As the code has it: a pop at a length of the form 8k + 1 drops one chunk,
\* a pop at any other length drops none
PopShrinksAtNewMultiple(before, after) ==
    ChunkCount(after) =
        ChunkCount(before) - (IF before.len % CHUNK_SIZE = 1 THEN 1 ELSE 0)

\* C4 as written (chunk shrink precision): a pop() at a length that is a
\* non-zero multiple of 8 reduces the chunk count by exactly 1, a pop() at
\* any other length leaves it unchanged.  Stated of every pop() made.
C4_Original == (op.name = "pop") => PopShrinksAtMultiple(prev, self)

\* C4 amended: a pop() at a length of the form 8k + 1 (1, 9, 17, ...: the
\* length after it is a multiple of 8) reduces the chunk count by exactly 1,
\* a pop() at any other length (0 included) leaves it unchanged.  Stated of
\* every pop() made and of the pop() that could be made next.
C4_ShrinkPrecision ==
    /\ (op.name = "pop") => PopShrinksAtNewMultiple(prev, self)
    /\ Probed => PopShrinksAtNewMultiple(self, pop(self).self)

C4_Witness ==
    /\ op.name = "pop"
    /\ prev.len = CHUNK_SIZE + 1
    /\ ChunkCount(prev) = 2
    /\ ChunkCount(self) = 1

\* C5: for every index i >= len() (those below capacity() included) get(i)
\* returns None without a panic, and set(i, v) returns false and changes
\* neither len nor a chunk.  Stated of every index tried in every reachable
\* state, and of the get and set calls made.
C5_OutOfRange ==
    /\ Probed => \A i \in Probe(self) :
          i >= self.len =>
              /\ get(self, i) = Result(self, None)
              /\ \A v \in BOOLEAN : set(self, i, v) = Result(self, Bool(FALSE))
    /\ (op.name = "get" /\ op.idx >= prev.len) => (ret = None /\ self = prev)
    /\ (op.name = "set" /\ op.idx >= prev.len) =>
           (ret = Bool(FALSE) /\ self = prev)

C5_Witness ==
    /\ op.name = "set"
    /\ op.val
    /\ op.idx >= prev.len
    /\ op.idx < capacity(prev)
    /\ ret = Bool(FALSE)

\* C6: push(v) immediately followed by pop() returns Some(v), restores len()
\* and leaves get(i) unchanged for every i below that length.  Stated of the
\* two calls made from every reachable state.
C6_PushPopInverse ==
    Probed => \A v \in BOOLEAN :
        LET pushed == push(self, v)
            popped == pop(pushed.self)
        IN  /\ pushed.ret = Unit
            /\ popped.ret = Some(v)
            /\ popped.self.len = self.len
            /\ \A i \in 0..(self.len - 1) :
                   get(popped.self, i).ret = get(self, i).ret

\* new(); push(true); pop(): only a push on new() leaves an allocation of 8
C6_Witness ==
    /\ op.name = "pop"
    /\ ret = Some(TRUE)
    /\ steps = 2
    /\ prev = [len |-> 1, chunks |-> <<1>>, cap |-> CHUNK_SIZE]
    /\ self = [len |-> 0, chunks |-> <<>>, cap |-> CHUNK_SIZE]

\* push(v) on before gave after: v is read at the old length, the rest is
\* as it was
PushRoundTrip(before, v, after) ==
    /\ get(after, before.len).ret = Some(v)
    /\ \A j \in 0..(before.len - 1) : get(after, j).ret = get(before, j).ret

\* C7: with n the length, after push(v) get(n) returns Some(v) and get(j) is
\* unchanged for every j < n, also when the slot n held a stale bit.  Stated
\* of every push made and of the pushes that could be made next.
C7_RoundTrip ==
    /\ (op.name = "push") => PushRoundTrip(prev, op.val, self)
    /\ Probed => \A v \in BOOLEAN : PushRoundTrip(self, v, push(self, v).self)

\* push(false) onto a slot that held a stale 1
C7_Witness ==
    /\ op.name = "push"
    /\ ~op.val
    /\ prev.len < capacity(prev)
    /\ get_unchecked(prev, prev.len).ret = Bool(TRUE)
    /\ get(self, prev.len).ret = Some(FALSE)

\* set(i, v) with i in range on before gave r
SetInRange(before, i, v, r) ==
    /\ r.ret = Bool(TRUE)
    /\ get(r.self, i).ret = Some(v)
    /\ r.self.len = before.len
    /\ ChunkCount(r.self) = ChunkCount(before)
    /\ \A j \in 0..(before.len - 1) :
           j # i => get(r.self, j).ret = get(before, j).ret

\* C8: for every i < len() and v, set(i, v) returns true, afterwards
\* get(i) = Some(v), and len(), the chunk count and get(j) for every other
\* j < len() are unchanged.  Stated of every set made and of the sets that
\* could be made next.
C8_InRangeSet ==
    /\ (op.name = "set" /\ op.idx < prev.len) =>
           SetInRange(prev, op.idx, op.val, Result(self, ret))
    /\ Probed => \A i \in 0..(self.len - 1), v \in BOOLEAN :
           SetInRange(self, i, v, set(self, i, v))

\* a set of the first bit of the second chunk, the first chunk holding a bit
C8_Witness ==
    /\ op.name = "set"
    /\ op.val
    /\ op.idx = CHUNK_SIZE
    /\ prev.chunks = <<1, 0>>
    /\ self.chunks = <<1, 1>>
    /\ ret = Bool(TRUE)

\* C9: with_zeros(n) has len() = n, get(i) = Some(false) for every i < n,
\* get(n) = None, and exactly n / 8 + 1 chunks, all zero.
C9_WithZeros ==
    (op.name = "with_zeros") =>
        LET n == op.idx IN
        /\ len(self) = n
        /\ \A i \in 0..(n - 1) : get(self, i).ret = Some(FALSE)
        /\ get(self, n).ret = None
        /\ ChunkCount(self) = (n \div CHUNK_SIZE) + 1
        /\ \A k \in 1..ChunkCount(self) : self.chunks[k] = 0

C9_Witness ==
    /\ op.name = "with_zeros"
    /\ op.idx = CHUNK_SIZE
    /\ ChunkCount(self) = 2

\* Everything a caller can read of a container
Observed(s) ==
    [len |-> len(s),
     capacity |-> capacity(s),
     items |-> iter(s).ret,
     gets |-> [i \in Probe(s) |-> get(s, i).ret]]

\* C10: with_capacity(c) and new() given the same calls return the same
\* values at every step, len() and capacity() included.  twin is the new()
\* container of a with_capacity run.
C10_CapacityHintUnobservable ==
    /\ ret = twinRet
    /\ Probed => Observed(self) = Observed(twin)

\* a with_capacity run (only there do the allocations differ) that pushed
\* and popped
C10_Witness ==
    /\ self.cap # twin.cap
    /\ op.name = "pop"
    /\ ret = Some(TRUE)
    /\ prev.len = 1

\* C11: immediately after with_capacity(capacity_hint), capacity() is at
\* least capacity_hint, for every hint.
C11_CapacityAtLeastHint ==
    (op.name = "with_capacity") => capacity(self) >= op.idx

\* C12: no checked operation panics: in every reachable state get(i) and
\* set(i, v) for any i, push(v), pop() and iter() return without a panic,
\* and the indices get, set, push and pop hand to get_unchecked and
\* set_unchecked are below capacity().  Stated of the calls that could be
\* made next and of the calls made.
C12_NoFault ==
    /\ Probed =>
          /\ \A i \in Probe(self) :
                /\ get(self, i).ret # Panic
                /\ i < self.len => i < capacity(self)
                /\ \A v \in BOOLEAN : set(self, i, v).ret # Panic
          /\ \A v \in BOOLEAN :
                /\ push(self, v).ret # Panic
                /\ self.len < capacity(push(self, v).self)
          /\ pop(self).ret # Panic
          /\ self.len > 0 => self.len - 1 < capacity(self)
          /\ iter(self).ret # Panic
    /\ (op.name \in {"get", "set", "push", "pop", "iter"}) => ret # Panic

\* a pop of the last slot of the storage
C12_Witness ==
    /\ op.name = "pop"
    /\ prev.len = capacity(prev)
    /\ prev.len = CHUNK_SIZE
    /\ ret.kind = "Some"

\* set_unchecked(i, v) on before gave r: bit i is v, no other bit of the
\* storage, nor len, nor the chunk count changed
SetUncheckedFrame(before, i, v, r) ==
    /\ r.ret = Unit
    /\ r.self.len = before.len
    /\ ChunkCount(r.self) = ChunkCount(before)
    /\ \A j \in 0..(capacity(before) - 1) :
           get_unchecked(r.self, j).ret =
               IF j = i THEN Bool(v) ELSE get_unchecked(before, j).ret

\* C13: get_unchecked(i) and set_unchecked(i, v) panic if and only if
\* i >= capacity(); below capacity(), the indices from len() on included,
\* they complete, and set_unchecked changes that one bit and neither len()
\* nor the chunk count.  Stated of every index tried in every reachable
\* state, and of the calls made.
C13_UncheckedFaults ==
    /\ Probed => \A i \in Probe(self) :
          /\ (get_unchecked(self, i).ret = Panic) <=> (i >= capacity(self))
          /\ get_unchecked(self, i).self = self
          /\ \A v \in BOOLEAN :
                IF i >= capacity(self)
                THEN set_unchecked(self, i, v) = Result(self, Panic)
                ELSE SetUncheckedFrame(self, i, v, set_unchecked(self, i, v))
    /\ (op.name \in {"get_unchecked", "set_unchecked"}) =>
           ((ret = Panic) <=> (op.idx >= capacity(prev)))
    /\ (op.name = "set_unchecked" /\ op.idx < capacity(prev)) =>
           SetUncheckedFrame(prev, op.idx, op.val, Result(self, ret))

\* a set_unchecked of a slot between len() and capacity()
C13_Witness ==
    /\ op.name = "set_unchecked"
    /\ op.val
    /\ op.idx >= prev.len
    /\ op.idx < capacity(prev)
    /\ ret = Unit
    /\ self # prev

\* s with every bit at a position >= len cleared
Scrub(s) ==
    [s EXCEPT !.chunks =
        [k \in 1..Len(s.chunks) |->
            IF k * CHUNK_SIZE <= s.len THEN s.chunks[k]
            ELSE IF (k - 1) * CHUNK_SIZE >= s.len THEN 0
            ELSE s.chunks[k] % Pow2(s.len - (k - 1) * CHUNK_SIZE)]]

\* C14: Invariant B: no result of get, pop or iter depends on a bit stored
\* at a position >= len(): the calls return what they return on the
\* container with the same len() and the same bits below it whose other
\* bits are all clear.  Stated of the calls made.
C14_StaleBitsHidden ==
    /\ (op.name = "get") => ret = get(Scrub(prev), op.idx).ret
    /\ (op.name = "pop") => ret = pop(Scrub(prev)).ret
    /\ (op.name = "iter") => ret = iter(Scrub(prev)).ret

\* pop() on before gave r
PopStep(before, r) ==
    IF before.len = 0 THEN r = Result(before, None)
    ELSE /\ r.self.len = before.len - 1
         /\ r.ret = get(before, before.len - 1).ret
         /\ r.ret.kind = "Some"
         /\ ChunkCount(r.self) =
                IF r.self.len % CHUNK_SIZE = 0 THEN ChunkCount(before) - 1
                ELSE ChunkCount(before)
         /\ r.self.chunks = SubSeq(before.chunks, 1, ChunkCount(r.self))

\* C15: pop() on an empty container returns None and changes nothing;
\* otherwise it decrements len by 1, returns what get(len - 1) returned
\* before it, and removes one trailing chunk if and only if the new length
\* is a multiple of 8 (0 included).  Stated of every pop made and of the pop
\* that could be made next.
C15_PopStep ==
    /\ (op.name = "pop") => PopStep(prev, Result(self, ret))
    /\ Probed => PopStep(self, pop(self))

\* the pop of the only element
C15_Witness ==
    /\ op.name = "pop"
    /\ prev.len = 1
    /\ ret = Some(TRUE)
    /\ ChunkCount(prev) = 1
    /\ ChunkCount(self) = 0

\* push(v) on before gave after
PushStep(before, v, after) ==
    /\ after.len = before.len + 1
    /\ IF before.len = capacity(before)
       THEN /\ ChunkCount(after) = ChunkCount(before) + 1
            /\ SubSeq(after.chunks, 1, ChunkCount(before)) = before.chunks
            /\ after.chunks[ChunkCount(after)] = (IF v THEN 1 ELSE 0)
       ELSE ChunkCount(after) = ChunkCount(before)
    /\ \A j \in 0..(before.len - 1) :
           get_unchecked(after, j).ret = get_unchecked(before, j).ret

\* C16: push(v) appends exactly one new zero chunk (and writes v into it) if
\* and only if len() = capacity() before it, and leaves the chunk count
\* unchanged otherwise; len() grows by 1 and no bit below the old len()
\* changes.  Stated of every push made and of the pushes that could be made
\* next.
C16_PushGrowth ==
    /\ (op.name = "push") => PushStep(prev, op.val, self)
    /\ Probed => \A v \in BOOLEAN : PushStep(self, v, push(self, v).self)

\* the ninth push onto eight elements in one chunk
C16_Witness ==
    /\ op.name = "push"
    /\ op.val
    /\ prev.len = CHUNK_SIZE
    /\ ChunkCount(prev) = 1
    /\ self.chunks = <<0, 1>>

\* C17: for a container built by new() or with_capacity and changed by
\* push, pop and set alone, the chunk count is len() / 8 rounded up in every
\* reachable state: 0 at the start, one more on the 1st, 9th, 17th, ...
\* push and on no other, and 4 after 32 pushes.
C17_ChunkCountIsCeil ==
    /\ ChunkCount(self) = (self.len + CHUNK_SIZE - 1) \div CHUNK_SIZE
    /\ (op.name \in {"new", "with_capacity"}) => ChunkCount(self) = 0
    /\ (op.name = "push") =>
           ChunkCount(self) =
               ChunkCount(prev) + (IF prev.len % CHUNK_SIZE = 0 THEN 1 ELSE 0)
    /\ (self.len = 4 * CHUNK_SIZE) => ChunkCount(self) = 4

\* the 32nd push of simple_test: 4 chunks, and iter() yields i % 3 == 0
C17_Witness ==
    /\ op.name = "push"
    /\ self.len = 4 * CHUNK_SIZE
    /\ ChunkCount(self) = 4
    /\ iter(self).ret.val = [i \in 1..(4 * CHUNK_SIZE) |-> (i - 1) % 3 = 0]

\* The sequence of booleans a container stands for: its bits below len,
\* read off the chunks by arithmetic
Abs(s) ==
    [i \in 1..s.len |->
        (s.chunks[((i - 1) \div CHUNK_SIZE) + 1]
            \div Pow2((i - 1) % CHUNK_SIZE)) % 2 = 1]

\* get on s answers as indexing the sequence q does
GetAsSeq(s, q) ==
    \A i \in Probe(s) :
        get(s, i).ret = IF i < Len(q) THEN Some(q[i + 1]) ELSE None

\* push(v) is Append
PushAsSeq(before, v, r) == Abs(r.self) = Append(Abs(before), v)

\* pop() removes and returns the last element, None when there is none
PopAsSeq(before, r) ==
    LET q == Abs(before) IN
    IF q = <<>> THEN r.ret = None /\ Abs(r.self) = <<>>
    ELSE r.ret = Some(q[Len(q)]) /\ Abs(r.self) = SubSeq(q, 1, Len(q) - 1)

\* set(i, v) updates element i when in range and is ignored otherwise
SetAsSeq(before, i, v, r) ==
    LET q == Abs(before) IN
    IF i < Len(q)
    THEN r.ret = Bool(TRUE) /\ Abs(r.self) = [q EXCEPT ![i + 1] = v]
    ELSE r.ret = Bool(FALSE) /\ Abs(r.self) = q

\* C18: the container refines a sequence of booleans: new() is the empty
\* sequence and with_zeros(n) n times false, push is Append, pop removes and
\* returns the last element (None when empty), set updates an element in
\* range and is ignored out of range; at every step len() is the length of
\* the sequence and get(i) its i-th element, None from len() on.  Stated of
\* the constructors, of every call made and of the calls that could be made
\* next.
C18_RefinesSequence ==
    /\ len(self) = Len(Abs(self))
    /\ Probed => GetAsSeq(self, Abs(self))
    /\ (op.name = "get") =>
           ret = (IF op.idx < Len(Abs(prev)) THEN Some(Abs(prev)[op.idx + 1])
                  ELSE None)
    /\ (op.name \in {"new", "with_capacity"}) => Abs(self) = <<>>
    /\ (op.name = "with_zeros") => Abs(self) = [i \in 1..op.idx |-> FALSE]
    /\ (op.name = "push") => PushAsSeq(prev, op.val, Result(self, ret))
    /\ (op.name = "pop") => PopAsSeq(prev, Result(self, ret))
    /\ (op.name = "set") => SetAsSeq(prev, op.idx, op.val, Result(self, ret))
    /\ Probed =>
          /\ \A v \in BOOLEAN : PushAsSeq(self, v, push(self, v))
          /\ PopAsSeq(self, pop(self))
          /\ \A i \in Probe(self), v \in BOOLEAN :
                SetAsSeq(self, i, v, set(self, i, v))

\* a pop across a chunk boundary of a container with_zeros built
C18_Witness ==
    /\ op.name = "pop"
    /\ ret = Some(TRUE)
    /\ prev.len = CHUNK_SIZE + 1
    /\ prev.cap = 2
    /\ Abs(self) = [i \in 1..CHUNK_SIZE |-> FALSE]

====
